---- MODULE Spec2Model ----
(***************************************************************************)
(* Firefly Algorithm optimizer (src/src/fa/fa.py).                         *)
(*                                                                         *)
(* Numbers.  The program computes in IEEE doubles; the model computes in   *)
(* integers.  A position coordinate, an objective value and a brightness   *)
(* are integers, the two infinities and NaN are three reserved integers    *)
(* compared as IEEE compares them, beta is a fixed-point number with       *)
(* denominator BetaScale and a random draw U in [0,1) is one of the UDen   *)
(* values 0/UDen .. (UDen-1)/UDen.  numpy's PCG64 generator is a small     *)
(* linear congruential generator: what matters is that it is one           *)
(* sequential stream whose state is fixed by the seed.                     *)
(*                                                                         *)
(* Indices are 0-based as in the source: X[i][k] for i in 0..n-1 and       *)
(* k in 0..d-1.  An optional value (seed, history_positions, the result)   *)
(* is a sequence of length 0 (None) or 1.                                  *)
(***************************************************************************)
EXTENDS Integers, Sequences, FiniteSets, TLC

VARIABLES cfg, fa

vars == <<cfg, fa>>

\* ---------------------------------------------------------------- bounds
MaxN == 3
MaxD == 2
MaxIters == 2
MaxSeed == 2
MaxEntropy == 1

\* ---------------------------------------------------------------- floats
Inf == 1000000
NaN == 2000000

IsNaN(a) == a = NaN
IsFinite(a) == a # NaN /\ a # Inf /\ a # -Inf

\* a > b on doubles: false as soon as one side is NaN
FGt(a, b) == ~IsNaN(a) /\ ~IsNaN(b) /\ a > b

\* -a on doubles
FNeg(a) == IF IsNaN(a) THEN NaN ELSE -a

\* a / b rounded to the nearest integer (b > 0), the rounding of one float operation
RoundDiv(a, b) == (2 * a + b) \div (2 * b)

None == <<>>
Some(v) == <<v>>

\* ---------------------------------------------------------------- random source
RngMod == 64
RngA == 5
RngC == 3
UDen == 4

RngNext(s) == (RngA * s + RngC) % RngMod

RECURSIVE RngAdvance(_, _)
RngAdvance(s, m) == IF m = 0 THEN s ELSE RngAdvance(RngNext(s), m - 1)

\* the m-th next double of the stream in state s, as a numerator over UDen
RngOut(s, m) == (RngAdvance(s, m) * UDen) \div RngMod

\* fault: the seed is ignored and every generator is seeded from entropy
default_rng_unseeded(seed, entropy) == entropy

\* np.random.default_rng(seed): the state is a function of the seed when one is
\* given, and is taken from the operating system's entropy when seed is None
default_rng(seed, entropy) ==
    IF seed = None THEN entropy ELSE (7 * seed[1] + 1) % RngMod

\* ---------------------------------------------------------------- objectives
RECURSIVE SumTo(_, _)
SumTo(f, k) == IF k < 0 THEN 0 ELSE f[k] + SumTo(f, k - 1)

Dim(x) == Cardinality(DOMAIN x)

Sum(f) == SumTo(f, Dim(f) - 1)

sphere(x) == Sum([k \in DOMAIN x |-> x[k] * x[k]])

rosenbrock(x) ==
    Sum([k \in 0..(Dim(x) - 2) |->
            100 * (x[k + 1] - x[k] * x[k]) * (x[k + 1] - x[k] * x[k])
            + (1 - x[k]) * (1 - x[k])])

\* the objectives a caller can hand in: the polynomial ones of objectives.py,
\* which keep the contract of a finite value
FiniteObjectives == {"sphere", "rosenbrock"}

\* and three callables that break it: 1/|x|^2 (infinite at the origin), a
\* square root (NaN left of the origin) and one that raises right of the origin
BrokenObjectives == {"recip", "sqrt", "raiser"}

Raises(func, x) ==
    CASE func = "raiser" -> Dim(x) = 0 \/ x[0] > 0
      [] func = "sqrt" -> Dim(x) = 0
      [] OTHER -> FALSE

Func(func, x) ==
    CASE func = "sphere" -> sphere(x)
      [] func = "rosenbrock" -> rosenbrock(x)
      [] func = "recip" -> IF sphere(x) = 0 THEN Inf ELSE 12 \div sphere(x)
      [] func = "sqrt" -> IF x[0] < 0 THEN NaN ELSE x[0]
      [] func = "raiser" -> sphere(x)

\* ---------------------------------------------------------------- configuration
\* FAParams and the arguments of Firefly(func, bounds, params) and of run()
Params(n, d, alpha, beta0, gamma, iters, minimize, seed, lower, upper) ==
    [n |-> n, d |-> d, alpha |-> alpha, beta0 |-> beta0, gamma |-> gamma,
     iters |-> iters, minimize |-> minimize, seed |-> seed,
     lower |-> lower, upper |-> upper]

\* an explicit bounds array of m rows, every row the pair pr
Rows(m, pr) == Some([k \in 0..(m - 1) |-> pr])

\* the shape of np.asarray(bounds): rows of two columns
Shape(b) == <<Dim(b), 2>>

_as_bounds(lower, upper, d) == [k \in 0..(d - 1) |-> <<lower, upper>>]

\* ---------------------------------------------------------------- the optimizer
\* a Firefly whose __init__ has not run yet
Fresh ==
    [pc |-> "new", exc |-> "none", func |-> "sphere",
     d |-> 0, n |-> 0, alpha |-> 0, beta0 |-> 0, gamma |-> 0, iters |-> 0,
     minimize |-> TRUE, rng |-> 0, bounds |-> <<>>,
     X |-> <<>>, values |-> <<>>, I |-> <<>>, best_idx |-> 0,
     X_init |-> <<>>, calls |-> 0, local |-> None,
     track_positions |-> FALSE, t |-> 0, history_best |-> <<>>,
     history_positions |-> None, result |-> None]

\* fault: the direction flag is ignored
_brightness_raw(self, fvals) == fvals

_brightness(self, fvals) ==
    IF self.minimize THEN [i \in DOMAIN fvals |-> FNeg(fvals[i])] ELSE fvals

Min(S) == CHOOSE a \in S : \A b \in S : a <= b
Max(S) == CHOOSE a \in S : \A b \in S : a >= b

\* np.argmax: the first index of the maximum, a NaN counting as the maximum
argmax(I) ==
    IF \E i \in DOMAIN I : IsNaN(I[i])
    THEN Min({i \in DOMAIN I : IsNaN(I[i])})
    ELSE Min({i \in DOMAIN I : \A j \in DOMAIN I : ~FGt(I[j], I[i])})

\* np.apply_along_axis(func, 1, X) raises when X has no row, and when func raises
EvalRaises(func, X) ==
    Dim(X) = 0 \/ \E i \in DOMAIN X : Raises(func, X[i])

apply_along_axis(func, X) == [i \in DOMAIN X |-> Func(func, X[i])]

\* rng.uniform(lo, hi, size=(n, d)): row-major, element (i, k) from draw i*d+k+1
uniform(rng, lo, hi, n, d) ==
    [i \in 0..(n - 1) |->
        [k \in 0..(d - 1) |->
            lo[k] + ((hi[k] - lo[k]) * RngOut(rng, i * d + k + 1)) \div UDen]]

\* rng.uniform raises ValueError on a negative size and on high - low < 0
UniformRaises(lo, hi, n, d) ==
    n < 0 \/ d < 0 \/ \E k \in DOMAIN lo : hi[k] - lo[k] < 0

_init_population(self) ==
    LET lo == [k \in DOMAIN self.bounds |-> self.bounds[k][1]]
        hi == [k \in DOMAIN self.bounds |-> self.bounds[k][2]]
        X == uniform(self.rng, lo, hi, self.n, self.d)
        rng == RngAdvance(self.rng, self.n * self.d)
        values == apply_along_axis(self.func, X)
        I == _brightness(self, values)
    IN  IF UniformRaises(lo, hi, self.n, self.d)
        THEN [self EXCEPT !.pc = "error", !.exc = "ValueError"]
        ELSE IF Dim(X) = 0
        THEN [self EXCEPT !.pc = "error", !.exc = "ValueError",
                          !.X = X, !.rng = rng]
        ELSE IF EvalRaises(self.func, X)
        THEN [self EXCEPT !.pc = "error", !.exc = "ObjectiveError",
                          !.X = X, !.rng = rng]
        ELSE [self EXCEPT !.pc = "ready", !.X = X, !.rng = rng,
                          !.values = values, !.I = I, !.best_idx = argmax(I),
                          !.X_init = X]

\* Firefly.__init__(func, bounds, params); entropy is what the operating
\* system hands default_rng when the seed is None
__init__(func, bounds, params, entropy) ==
    LET self == [Fresh EXCEPT
                    !.func = func, !.d = params.d, !.n = params.n,
                    !.alpha = params.alpha, !.beta0 = params.beta0,
                    !.gamma = params.gamma, !.iters = params.iters,
                    !.minimize = params.minimize,
                    !.rng = default_rng(params.seed, entropy)]
    IN  IF bounds = None
        THEN IF params.d < 0
             THEN [self EXCEPT !.pc = "error", !.exc = "ValueError"]
             ELSE _init_population(
                    [self EXCEPT !.bounds =
                        _as_bounds(params.lower, params.upper, params.d)])
        ELSE IF Shape(bounds[1]) # <<params.d, 2>>
             THEN [self EXCEPT !.pc = "error", !.exc = "AssertionError",
                               !.bounds = bounds[1]]
             ELSE _init_population([self EXCEPT !.bounds = bounds[1]])

\* ---------------------------------------------------------------- one step
BetaScale == 8

\* BetaScale * exp(-z) for an integer z >= 0, rounded
ExpNeg(z) ==
    CASE z <= 0 -> BetaScale
      [] z = 1 -> 3
      [] z = 2 -> 1
      [] OTHER -> 0

\* rij ** 2 for rij = np.linalg.norm(xi - xj)
Dist2(xi, xj) == Sum([k \in DOMAIN xi |-> (xi[k] - xj[k]) * (xi[k] - xj[k])])

\* beta = beta0 * exp(-gamma * rij ** 2), as a numerator over BetaScale
Beta(self, i, j) == self.beta0 * ExpNeg(self.gamma * Dist2(self.X[i], self.X[j]))

\* alpha * (U - 0.5) for the draw U = u / UDen
step_random(alpha, u) == RoundDiv(alpha * (2 * u - UDen), 2 * UDen)

\* xi + beta * (xj - xi) + alpha * (rng.random(d) - 0.5), the d draws taken
\* from the stream in state rng
_move_towards(self, xi, xj, beta, rng) ==
    [k \in DOMAIN xi |->
        xi[k] + RoundDiv(beta * (xj[k] - xi[k]), BetaScale)
              + step_random(self.alpha, RngOut(rng, k + 1))]

\* fault: only the lower limit is enforced
_clip_lower_only(self, X) ==
    [i \in DOMAIN X |->
        [k \in DOMAIN X[i] |->
            IF X[i][k] < self.bounds[k][1] THEN self.bounds[k][1] ELSE X[i][k]]]

\* np.clip(X, lower, upper) = minimum(maximum(X, lower), upper)
_clip(self, X) ==
    [i \in DOMAIN X |->
        [k \in DOMAIN X[i] |->
            LET v == IF X[i][k] < self.bounds[k][1]
                     THEN self.bounds[k][1] ELSE X[i][k]
            IN  IF v > self.bounds[k][2] THEN self.bounds[k][2] ELSE v]]

\* fault: the first brighter neighbour's proposal is kept
RECURSIVE ProposeFirst(_, _, _, _)
ProposeFirst(self, X_new, rng, p) ==
    IF p >= self.n * self.n
    THEN [X_new |-> X_new, rng |-> rng]
    ELSE LET i == p \div self.n
             j == p % self.n
         IN  IF FGt(self.I[j], self.I[i]) /\ X_new[i] = self.X[i]
             THEN ProposeFirst(
                    self,
                    [X_new EXCEPT ![i] =
                        _move_towards(self, self.X[i], self.X[j],
                                      Beta(self, i, j), rng)],
                    RngAdvance(rng, self.d), p + 1)
             ELSE ProposeFirst(self, X_new, rng, p + 1)

\* fault: a neighbour that is as bright (the firefly itself included) attracts too
RECURSIVE ProposeTies(_, _, _, _)
ProposeTies(self, X_new, rng, p) ==
    IF p >= self.n * self.n
    THEN [X_new |-> X_new, rng |-> rng]
    ELSE LET i == p \div self.n
             j == p % self.n
         IN  IF ~FGt(self.I[i], self.I[j])
             THEN ProposeTies(
                    self,
                    [X_new EXCEPT ![i] =
                        _move_towards(self, self.X[i], self.X[j],
                                      Beta(self, i, j), rng)],
                    RngAdvance(rng, self.d), p + 1)
             ELSE ProposeTies(self, X_new, rng, p + 1)

\* the double loop of step(): pair number p is (i, j) = (p div n, p mod n),
\* so i runs in increasing order and, for each i, j in increasing order
RECURSIVE Propose(_, _, _, _)
Propose(self, X_new, rng, p) ==
    IF p >= self.n * self.n
    THEN [X_new |-> X_new, rng |-> rng]
    ELSE LET i == p \div self.n
             j == p % self.n
         IN  IF FGt(self.I[j], self.I[i])
             THEN Propose(
                    self,
                    [X_new EXCEPT ![i] =
                        _move_towards(self, self.X[i], self.X[j],
                                      Beta(self, i, j), rng)],
                    RngAdvance(rng, self.d), p + 1)
             ELSE Propose(self, X_new, rng, p + 1)

\* fault: a tie is accepted
AcceptedGe(self, I_new, i) == ~FGt(self.I[i], I_new[i])

\* the test of the acceptance loop
Accepted(self, I_new, i) == FGt(I_new[i], self.I[i])

\* fault: the value of an accepted candidate is not stored
acceptance_stale_values(self, X_new, vals_new, I_new) ==
    [X |-> [i \in DOMAIN self.X |->
                IF Accepted(self, I_new, i) THEN X_new[i] ELSE self.X[i]],
     values |-> self.values,
     I |-> [i \in DOMAIN self.X |->
                IF Accepted(self, I_new, i) THEN I_new[i] ELSE self.I[i]]]

\* the acceptance loop of step(): X, values and I after it
acceptance(self, X_new, vals_new, I_new) ==
    [X |-> [i \in DOMAIN self.X |->
                IF Accepted(self, I_new, i) THEN X_new[i] ELSE self.X[i]],
     values |-> [i \in DOMAIN self.X |->
                IF Accepted(self, I_new, i) THEN vals_new[i] ELSE self.values[i]],
     I |-> [i \in DOMAIN self.X |->
                IF Accepted(self, I_new, i) THEN I_new[i] ELSE self.I[i]]]

\* Firefly.step(); calls counts the calls, and local keeps the locals of the
\* last call (the proposals before and after clipping, their values and
\* brightness) with the population and the generator state it started from
step(self) ==
    LET prop == Propose(self, self.X, self.rng, 0)
        X_new == _clip(self, prop.X_new)
        vals_new == apply_along_axis(self.func, X_new)
        I_new == _brightness(self, vals_new)
        acc == acceptance(self, X_new, vals_new, I_new)
        local == [X |-> self.X, values |-> self.values, I |-> self.I,
                  rng |-> self.rng, proposed |-> prop.X_new, X_new |-> X_new,
                  vals_new |-> <<>>, I_new |-> <<>>]
    IN  IF EvalRaises(self.func, X_new)
        THEN [self EXCEPT !.pc = "failed", !.exc = "ObjectiveError",
                          !.rng = prop.rng, !.calls = @ + 1,
                          !.local = Some(local)]
        ELSE [self EXCEPT !.X = acc.X, !.values = acc.values, !.I = acc.I,
                          !.best_idx = argmax(acc.I), !.rng = prop.rng,
                          !.calls = @ + 1,
                          !.local = Some([local EXCEPT !.vals_new = vals_new,
                                                       !.I_new = I_new])]

\* ---------------------------------------------------------------- run
\* run(track_positions) up to its loop
run_enter(self, track_positions) ==
    [self EXCEPT !.pc = "running", !.track_positions = track_positions,
                 !.t = 0, !.history_best = <<>>,
                 !.history_positions =
                    IF track_positions THEN Some(<<self.X>>) ELSE None]

\* one pass of `for _ in range(self.iters)`
run_iteration(self) ==
    LET s == step(self)
    IN  IF s.pc = "failed"
        THEN s
        ELSE [s EXCEPT !.t = @ + 1,
                       !.history_positions =
                          IF s.track_positions
                          THEN Some(Append(s.history_positions[1], s.X))
                          ELSE None,
                       !.history_best = Append(@, s.values[s.best_idx])]

\* the return of run(): best_x, best_val and info
run_return(self) ==
    [self EXCEPT !.pc = "done",
                 !.result = Some(
                    [best_x |-> self.X[self.best_idx],
                     best_val |-> self.values[self.best_idx],
                     best_idx |-> self.best_idx,
                     history_best |-> self.history_best,
                     best_intensity |-> self.I[self.best_idx],
                     history_positions |-> self.history_positions])]

\* ---------------------------------------------------------------- callers
\* what the operating system's entropy can seed an unseeded generator with
Entropy == {(11 * e + 5) % RngMod : e \in 0..MaxEntropy}

Seeds == {None} \cup {Some(v) : v \in 0..MaxSeed}

\* the boxes a caller asks for: bounds=None with FAParams.lower/upper at their
\* defaults -5, 5, or an explicit array of d rows
Boxes(d) ==
    {[bounds |-> None, lower |-> -5, upper |-> 5],
     [bounds |-> Rows(d, <<0, 3>>), lower |-> -5, upper |-> 5],
     [bounds |-> Rows(d, <<1, 1>>), lower |-> -5, upper |-> 5]}

\* alpha, beta0, gamma: the defaults' shape (noise and decaying attraction),
\* and a wider noise with no decay
Hypers == {<<2, 1, 1>>, <<4, 1, 0>>}

Config(func, box, params, track_positions) ==
    [func |-> func, bounds |-> box.bounds,
     params |-> [params EXCEPT !.lower = box.lower, !.upper = box.upper],
     track_positions |-> track_positions]

\* configurations the data model allows (and iters = 0), with an objective
\* that keeps its contract: finite everywhere, never raising
IsUsualConfig(c) ==
    \E func \in FiniteObjectives, n \in 1..MaxN, d \in 1..MaxD,
       h \in Hypers, iters \in 0..MaxIters, minimize \in BOOLEAN,
       seed \in Seeds, tr \in BOOLEAN :
        \E box \in Boxes(d) :
            c = Config(func, box,
                       Params(n, d, h[1], h[2], h[3], iters, minimize, seed, 0, 0),
                       tr)

\* the same, with an objective that breaks its contract somewhere in the box
IsBrokenConfig(c) ==
    \E func \in BrokenObjectives, n \in 1..2, iters \in 0..1,
       minimize \in BOOLEAN, seed \in Seeds :
        \E box \in Boxes(1) :
            c = Config(func, box,
                       Params(n, 1, 2, 1, 1, iters, minimize, seed, 0, 0),
                       FALSE)

\* configurations the data model forbids: a population or a dimension that is
\* not positive, a negative iteration count, an inverted interval, and an
\* explicit array that does not have d rows
OddConfigs ==
    LET P(n, d, iters, minimize) ==
            Params(n, d, 2, 1, 1, iters, minimize, Some(0), 0, 0)
        small == [bounds |-> None, lower |-> -2, upper |-> 2]
    IN  UNION {
          {Config("sphere", small, P(n, 1, 1, m), FALSE) : n \in {-1, 0}}
          \cup {Config("sphere", small, P(2, d, 1, m), FALSE) : d \in {-1, 0}}
          \cup {Config("sphere", small, P(2, 1, -1, m), tr) : tr \in BOOLEAN}
          \cup {Config("sphere", [small EXCEPT !.lower = 2, !.upper = -2],
                       P(2, 1, 1, m), FALSE)}
          \cup {Config("sphere", [small EXCEPT !.bounds = Rows(rows, pr)],
                       P(2, 1, 1, m), FALSE) :
                    rows \in 0..2, pr \in {<<0, 3>>, <<3, 0>>}}
          : m \in BOOLEAN}

\* what the pair of runs of SpecPair is constructed with
IsPairConfig(c) ==
    \E func \in {"sphere", "raiser"}, n \in 2..MaxN, d \in 1..MaxD,
       iters \in 1..MaxIters, minimize \in BOOLEAN, seed \in Seeds :
        \E box \in Boxes(d) :
            c = Config(func, box,
                       Params(n, d, 2, 1, 1, iters, minimize, seed, 0, 0),
                       TRUE)

\* ---------------------------------------------------------------- actions
\* the caller constructs optimizer k
Construct(k) ==
    /\ fa[k].pc = "new"
    /\ \E entropy \in Entropy :
          fa' = [fa EXCEPT ![k] =
                    __init__(cfg.func, cfg.bounds, cfg.params, entropy)]
    /\ UNCHANGED cfg

\* the caller calls run(track_positions): up to the loop
RunEnter(k) ==
    /\ fa[k].pc = "ready"
    /\ fa' = [fa EXCEPT ![k] = run_enter(fa[k], cfg.track_positions)]
    /\ UNCHANGED cfg

\* one pass of the loop of run()
RunIteration(k) ==
    /\ fa[k].pc = "running"
    /\ fa[k].t < fa[k].iters
    /\ fa' = [fa EXCEPT ![k] = run_iteration(fa[k])]
    /\ UNCHANGED cfg

\* range(self.iters) is exhausted: run() returns
RunReturn(k) ==
    /\ fa[k].pc = "running"
    /\ ~(fa[k].t < fa[k].iters)
    /\ fa' = [fa EXCEPT ![k] = run_return(fa[k])]
    /\ UNCHANGED cfg

\* one optimizer, constructed by one caller
Init ==
    /\ \/ IsUsualConfig(cfg)
       \/ IsBrokenConfig(cfg)
       \/ cfg \in OddConfigs
    /\ fa = [k \in {1} |-> Fresh]

\* two optimizers, constructed with the same arguments
InitPair ==
    /\ IsPairConfig(cfg)
    /\ fa = [k \in {1, 2} |-> Fresh]

Next ==
    \/ \E k \in DOMAIN fa : Construct(k)
    \/ \E k \in DOMAIN fa : RunEnter(k)
    \/ \E k \in DOMAIN fa : RunIteration(k)
    \/ \E k \in DOMAIN fa : RunReturn(k)

Spec == Init /\ [][Next]_vars

SpecPair == InitPair /\ [][Next]_vars

\* ---------------------------------------------------------------- properties
\* optimizer k has been constructed
Built(k) == fa[k].pc \in {"ready", "running", "done", "failed"}

\* the transition is a call of step() on optimizer k that returned
Stepped(k) == fa[k]'.calls = fa[k].calls + 1 /\ fa[k]'.pc # "failed"

\* a is the same double as b, or a smaller one
FLeq(a, b) == a = b \/ FGt(b, a)

\* C1. Bounds invariant: once an optimizer is constructed, and after every
\* step, every coordinate k of every firefly's position lies in
\* [bounds[k].lower, bounds[k].upper].
BoundsInvariant ==
    \A k \in DOMAIN fa :
        Built(k) =>
            \A i \in DOMAIN fa[k].X :
                \A c \in DOMAIN fa[k].X[i] :
                    /\ fa[k].bounds[c][1] <= fa[k].X[i][c]
                    /\ fa[k].X[i][c] <= fa[k].bounds[c][2]

\* a step proposed a position outside the box for some firefly, clipped it,
\* and the firefly moved to the clipped position
ClippedMoveAccepted ==
    \E k \in DOMAIN fa :
        /\ fa[k].pc \in {"running", "done"}
        /\ fa[k].local # None
        /\ \E i \in DOMAIN fa[k].X :
              /\ fa[k].local[1].proposed[i] # fa[k].local[1].X_new[i]
              /\ fa[k].X[i] = fa[k].local[1].X_new[i]
              /\ fa[k].X[i] # fa[k].local[1].X[i]

\* C2. Acceptance never regresses a firefly: across every step() call the
\* brightness of firefly i is the same or greater, and position, value and
\* brightness of i are replaced by the candidate's if and only if the
\* candidate's brightness is strictly greater than the current one (a tie or
\* a regression leaves firefly i as it was).
AcceptanceNeverRegresses ==
    [][\A k \in DOMAIN fa :
          Stepped(k) =>
            \A i \in DOMAIN fa[k].X :
                LET cand == fa[k]'.local[1]
                IN  /\ FLeq(fa[k].I[i], fa[k]'.I[i])
                    /\ IF FGt(cand.I_new[i], fa[k].I[i])
                       THEN /\ fa[k]'.X[i] = cand.X_new[i]
                            /\ fa[k]'.values[i] = cand.vals_new[i]
                            /\ fa[k]'.I[i] = cand.I_new[i]
                       ELSE /\ fa[k]'.X[i] = fa[k].X[i]
                            /\ fa[k]'.values[i] = fa[k].values[i]
                            /\ fa[k]'.I[i] = fa[k].I[i]]_vars

\* a step gave a firefly a candidate at another position that is exactly as
\* bright as the firefly (a tie), and the firefly stayed where it was
CandidateTieRejected ==
    \E k \in DOMAIN fa :
        /\ fa[k].pc \in {"running", "done"}
        /\ fa[k].local # None
        /\ \E i \in DOMAIN fa[k].X :
              /\ fa[k].local[1].I_new[i] = fa[k].local[1].I[i]
              /\ fa[k].local[1].X_new[i] # fa[k].local[1].X[i]
              /\ fa[k].X[i] = fa[k].local[1].X[i]

\* C3. Monotonic best-so-far: every entry of history_best is no worse than
\* the entry before it under the configured direction: the same or smaller
\* when minimizing, the same or greater when maximizing.
MonotonicBestSoFar ==
    \A k \in DOMAIN fa :
        \A t \in 1..(Len(fa[k].history_best) - 1) :
            IF fa[k].minimize
            THEN FLeq(fa[k].history_best[t + 1], fa[k].history_best[t])
            ELSE FLeq(fa[k].history_best[t], fa[k].history_best[t + 1])

\* run() has returned a history_best whose second entry is strictly better
\* than its first
BestImprovedDuringRun ==
    \E k \in DOMAIN fa :
        /\ fa[k].pc = "done"
        /\ Len(fa[k].result[1].history_best) >= 2
        /\ fa[k].result[1].history_best[2] # fa[k].result[1].history_best[1]

\* C4. run() executes exactly iters steps: when it returns, step() has been
\* called iters times, history_best has length iters and, when
\* track_positions is requested, history_positions has length iters + 1 and
\* starts with the population run() was entered with; for iters = 0 the
\* result is the best point and value of the initial population.
RunExecutesItersSteps ==
    \A k \in DOMAIN fa :
        fa[k].pc = "done" =>
            LET r == fa[k].result[1]
            IN  /\ fa[k].calls = fa[k].iters
                /\ Len(r.history_best) = fa[k].iters
                /\ fa[k].track_positions =>
                      /\ r.history_positions # None
                      /\ Len(r.history_positions[1]) = fa[k].iters + 1
                      /\ r.history_positions[1][1] = fa[k].X_init
                /\ fa[k].iters = 0 =>
                      /\ r.best_x = fa[k].X_init[r.best_idx]
                      /\ r.best_val = Func(fa[k].func, r.best_x)
                      /\ \A i \in DOMAIN fa[k].X_init :
                            ~FGt(_brightness(fa[k], apply_along_axis(fa[k].func, fa[k].X_init))[i],
                                 fa[k].I[r.best_idx])

\* the configurations the error taxonomy calls malformed
InvalidConfig ==
    \/ cfg.bounds # None /\ Dim(cfg.bounds[1]) # cfg.params.d
    \/ cfg.bounds # None /\ \E c \in DOMAIN cfg.bounds[1] :
                                cfg.bounds[1][c][1] > cfg.bounds[1][c][2]
    \/ cfg.bounds = None /\ cfg.params.lower > cfg.params.upper
    \/ cfg.params.n <= 0
    \/ cfg.params.d <= 0
    \/ cfg.params.iters <= 0

\* C5. A configuration the data model forbids never yields an optimizer:
\* when the bounds are not exactly d pairs, some lower exceeds its upper,
\* n <= 0, d <= 0 or iters <= 0, construction raises.
InvalidConfigRaises ==
    InvalidConfig => \A k \in DOMAIN fa : fa[k].pc \in {"new", "error"}

\* C6. A non-finite objective value is never stored: the values and the
\* brightness of an optimizer that was constructed, is running or has
\* returned are finite, and so are the best value and the history it
\* returns.
NonFiniteNeverStored ==
    \A k \in DOMAIN fa :
        fa[k].pc \in {"ready", "running", "done"} =>
            /\ \A i \in DOMAIN fa[k].values : IsFinite(fa[k].values[i])
            /\ \A t \in 1..Len(fa[k].history_best) :
                    IsFinite(fa[k].history_best[t])

\* two optimizers are at the same point of their runs, after a step or at the end
SamePoint(k1, k2) ==
    /\ fa[k1].pc \in {"running", "done"}
    /\ fa[k1].pc = fa[k2].pc
    /\ fa[k1].calls = fa[k2].calls
    /\ fa[k1].calls >= 1 \/ fa[k1].pc = "done"

\* C7. Determinism: two optimizers constructed with the same objective,
\* bounds, hyperparameters and seed hold equal populations after the same
\* number of steps, and return equal results.
Determinism ==
    \A k1, k2 \in DOMAIN fa :
        SamePoint(k1, k2) =>
            /\ fa[k1].X = fa[k2].X
            /\ fa[k1].values = fa[k2].values
            /\ fa[k1].history_best = fa[k2].history_best
            /\ fa[k1].result = fa[k2].result

\* C7, amended. The same, for a seed that is an integer: with seed = None
\* each generator is seeded from the operating system's entropy.
DeterminismSeeded ==
    cfg.params.seed # None => Determinism

\* two seeded optimizers have both returned, after steps that moved fireflies
SeededPairReturned ==
    /\ cfg.params.seed # None
    /\ DOMAIN fa = {1, 2}
    /\ fa[1].pc = "done" /\ fa[2].pc = "done"
    /\ fa[1].X # fa[1].X_init
    /\ Len(fa[2].result[1].history_best) >= 2

\* C8. State consistency at rest: for every firefly of a constructed
\* optimizer, values[i] is the objective at positions[i] and the brightness
\* is -values[i] when minimizing and values[i] when maximizing.
StateConsistentAtRest ==
    \A k \in DOMAIN fa :
        Built(k) =>
            \A i \in DOMAIN fa[k].X :
                /\ fa[k].values[i] = Func(fa[k].func, fa[k].X[i])
                /\ fa[k].I[i] = IF fa[k].minimize
                                THEN FNeg(fa[k].values[i])
                                ELSE fa[k].values[i]

\* a minimizing optimizer is at rest after a step that moved a firefly to a
\* position with another value
MovedAndReevaluated ==
    \E k \in DOMAIN fa :
        /\ fa[k].pc \in {"running", "done"}
        /\ fa[k].minimize
        /\ fa[k].local # None
        /\ \E i \in DOMAIN fa[k].X :
              /\ fa[k].X[i] # fa[k].local[1].X[i]
              /\ fa[k].values[i] # fa[k].local[1].values[i]
              /\ fa[k].values[i] # 0

\* the neighbours strictly brighter than i when the step recorded in l started
BrighterThan(l, i) == {j \in DOMAIN l.I : FGt(l.I[j], l.I[i])}

\* how many pairs (i2, j2), j2 brighter than i2, come before the pair (i, j)
PairsBefore(l, i, j) ==
    Cardinality({pr \in (DOMAIN l.I) \X (DOMAIN l.I) :
                    /\ pr[2] \in BrighterThan(l, pr[1])
                    /\ pr[1] < i \/ (pr[1] = i /\ pr[2] < j)})

\* C9. Candidate overwrite order: in one step() every firefly i with a
\* strictly brighter neighbour is proposed the position
\* X[i] + beta*(X[j] - X[i]) + alpha*(U - 0.5) for the highest-index j that is
\* strictly brighter than i, computed from the positions and the brightness
\* held when the step started, with the d draws U of that pair: the pairs
\* (i, j) with j brighter than i draw from the stream in increasing order of
\* i and, for each i, of j, and a later proposal for i replaces an earlier one.
CandidateFromLastBrighter ==
    \A k \in DOMAIN fa :
        fa[k].local # None =>
            LET l == fa[k].local[1]
            IN  \A i \in DOMAIN l.X :
                    BrighterThan(l, i) # {} =>
                        LET j == Max(BrighterThan(l, i))
                            first == PairsBefore(l, i, j) * fa[k].d
                            beta == fa[k].beta0
                                    * ExpNeg(fa[k].gamma * Dist2(l.X[i], l.X[j]))
                        IN  \A c \in DOMAIN l.X[i] :
                                l.proposed[i][c] =
                                    l.X[i][c]
                                    + RoundDiv(beta * (l.X[j][c] - l.X[i][c]), BetaScale)
                                    + RoundDiv(fa[k].alpha
                                               * (2 * RngOut(l.rng, first + c + 1) - UDen),
                                               2 * UDen)

\* a step started with a firefly that had two strictly brighter neighbours at
\* different distances, and the proposal made from the later one differs from
\* the proposal the earlier one had made
OverwrittenProposal ==
    \E k \in DOMAIN fa :
        /\ fa[k].local # None
        /\ LET l == fa[k].local[1]
           IN  \E i \in DOMAIN l.X :
                  \E j1, j2 \in BrighterThan(l, i) :
                      /\ j1 < j2
                      /\ j2 = Max(BrighterThan(l, i))
                      /\ l.X[j1] # l.X[j2]
                      /\ l.proposed[i] #
                            _move_towards(fa[k], l.X[i], l.X[j1],
                                fa[k].beta0 * ExpNeg(fa[k].gamma * Dist2(l.X[i], l.X[j1])),
                                RngAdvance(l.rng, PairsBefore(l, i, j1) * fa[k].d))

\* C10. A firefly with no strictly brighter neighbour when a step() starts
\* keeps its position, value and brightness across the step; when all
\* brightness values are equal the population is the same after the step.
NoBrighterNeighbourStays ==
    [][\A k \in DOMAIN fa :
          Stepped(k) =>
            /\ \A i \in DOMAIN fa[k].X :
                  (\A j \in DOMAIN fa[k].I : ~FGt(fa[k].I[j], fa[k].I[i])) =>
                      /\ fa[k]'.X[i] = fa[k].X[i]
                      /\ fa[k]'.values[i] = fa[k].values[i]
                      /\ fa[k]'.I[i] = fa[k].I[i]
                      /\ fa[k]'.local[1].proposed[i] = fa[k].X[i]
            /\ (\A i, j \in DOMAIN fa[k].I : fa[k].I[i] = fa[k].I[j]) =>
                  /\ fa[k]'.X = fa[k].X
                  /\ fa[k]'.values = fa[k].values
                  /\ fa[k]'.I = fa[k].I]_vars

\* after a step the brightest firefly is where it was while a dimmer one
\* moved toward it
BrightestStayedDimmerMoved ==
    \E k \in DOMAIN fa :
        /\ fa[k].pc \in {"running", "done"}
        /\ fa[k].local # None
        /\ LET l == fa[k].local[1]
           IN  \E a, b \in DOMAIN l.X :
                  /\ BrighterThan(l, a) = {}
                  /\ a \in BrighterThan(l, b)
                  /\ fa[k].X[a] = l.X[a]
                  /\ fa[k].X[b] # l.X[b]

====
